---- MODULE Spec2Model ----
(***************************************************************************)
(* Server-side packet handler of the overlay VPN rendezvous service:       *)
(* ServerPacketHandler::handle and its sub-handlers (core/service/         *)
(* server.rs) over the group directory NetworkInfo / ClientInfo            *)
(* (core/entity/mod.rs) and the TTL session caches.                        *)
(*                                                                         *)
(* Addresses.  A virtual IPv4 address is written as the low octet of       *)
(* 10.0.0.x: the gateway 10.0.0.1 is 1, 10.0.0.2 is 2.  The upper 24 bits  *)
(* of the netmask are all ones and those of every address are the          *)
(* gateway's, so the u32 expressions gateway & netmask and                 *)
(* gateway | !netmask are decided by the low octet, on which BitAnd, BitOr *)
(* and BitNot work bit by bit.  0 is the request for "let the server       *)
(* choose", as in the code.                                                *)
(***************************************************************************)
EXTENDS Integers, Sequences, FiniteSets, TLC

VARIABLES
    config,           \* ConfigInfo + rsa_cipher, fixed at construction
    virtual_network,  \* cache.virtual_network : group -> NetworkInfo
    addr_session,     \* cache.addr_session    : address -> (group, virtual_ip)
    ip_session,       \* cache.ip_session      : (group, virtual_ip) -> address
    cipher_session,   \* cache.cipher_session  : address -> AES key
    last,             \* the packet just handled and what handle() returned for it
    tasks             \* the registrations in flight on the workers, each at its position

vars == <<config, virtual_network, addr_session, ip_session, cipher_session, last, tasks>>

\* The server state a handler reads and writes (everything but the observation).
core == <<virtual_network, addr_session, ip_session, cipher_session>>

(***************************************************************************)
(* Bounds                                                                  *)
(***************************************************************************)
\* Registrations are taken while the epochs of the groups add up to at most MaxEpoch.
MaxEpoch == 3

(***************************************************************************)
(* Small helpers                                                           *)
(***************************************************************************)
None == "None"

Put(f, k, v) == [x \in (DOMAIN f) \cup {k} |-> IF x = k THEN v ELSE f[x]]

Remove(f, k) == [x \in (DOMAIN f) \ {k} |-> f[x]]

Empty == [x \in {} |-> None]

RECURSIVE Bits(_, _, _, _)
\* bitwise combination of two octets, op[<<bit a, bit b>>] giving the result bit
Bits(op, a, b, n) ==
    IF n = 0 THEN 0
    ELSE op[<<a % 2, b % 2>>] + 2 * Bits(op, a \div 2, b \div 2, n - 1)

BitAnd(a, b) == Bits([p \in {0, 1} \X {0, 1} |-> IF p[1] = 1 /\ p[2] = 1 THEN 1 ELSE 0], a, b, 8)

BitOr(a, b) == Bits([p \in {0, 1} \X {0, 1} |-> IF p[1] = 1 \/ p[2] = 1 THEN 1 ELSE 0], a, b, 8)

BitNot(a) == Bits([p \in {0, 1} \X {0, 1} |-> 1 - p[1]], a, 0, 8)

\* `x as u32` of a u64 and `x as u16`
TruncU32(x) == (x % 65536) + 65536 * ((x \div 65536) % 65536)

TruncU16(x) == x % 65536

(***************************************************************************)
(* Configuration and inputs                                                *)
(***************************************************************************)
\* three deployments: gateway 10.0.0.1 with a /29 (usable 2..6) and a token
\* allowlist; gateway 10.0.0.1 with a /30 (usable 2 only), the allowlist and an
\* RSA key; the /30 with neither.  broadcast is the subnet's, gateway | !netmask.
ConfigInfo_new(gateway, netmask, white_token, rsa_cipher) ==
    [gateway |-> gateway, netmask |-> netmask,
     white_token |-> white_token,
     rsa_cipher |-> rsa_cipher, broadcast |-> BitOr(gateway, BitNot(netmask))]

Configs ==
    { ConfigInfo_new(1, 248, [some |-> TRUE, tokens |-> {"T", "U"}], FALSE),
      ConfigInfo_new(1, 252, [some |-> TRUE, tokens |-> {"T", "U"}], TRUE),
      ConfigInfo_new(1, 252, [some |-> FALSE, tokens |-> {}], FALSE) }

\* source transport addresses; the TCP-attached peer comes with a byte sink
Addrs == {"a1", "a2"}

tcp_sender_of(addr) == IF addr = "a2" THEN "sink_a2" ELSE None

Keys == {"k1"}

(***************************************************************************)
(* entity/mod.rs                                                           *)
(***************************************************************************)
NetworkInfo_new(network_ip, mask_ip, gateway_ip) ==
    [network_ip |-> network_ip, mask_ip |-> mask_ip, gateway_ip |-> gateway_ip,
     epoch |-> 0, clients |-> Empty]

\* Option<ClientStatusInfo>: None
NoStatus == [some |-> FALSE, p2p_list |-> {}, up_stream |-> 0, down_stream |-> 0,
             is_cone |-> FALSE]

ClientInfo_default ==
    [device_id |-> "", name |-> "", client_secret |-> FALSE, address |-> "0.0.0.0:0",
     online |-> FALSE, virtual_ip |-> 0, tcp_sender |-> None, client_status |-> NoStatus]

(***************************************************************************)
(* Session cache (core/store/cache.rs is not among the sources; contract   *)
(* of section 4.C of the specification)                                    *)
(***************************************************************************)
optionally_get_with(vn, group, fresh) ==
    IF group \in DOMAIN vn THEN vn ELSE Put(vn, group, fresh)

insert_ip_session(ips, key, addr) == Put(ips, key, addr)

insert_addr_session(as, addr, value) == Put(as, addr, value)

insert_cipher_session(cs, addr, aes) == Put(cs, addr, aes)

\* Context: the group's NetworkInfo handle (named by its group) and the vip
NoContext == [some |-> FALSE, virtual_ip |-> 0, group |-> ""]

get_context(S, addr) ==
    IF addr \in DOMAIN S.addr_session /\ S.addr_session[addr][1] \in DOMAIN S.virtual_network
    THEN [some |-> TRUE, virtual_ip |-> S.addr_session[addr][2],
          group |-> S.addr_session[addr][1]]
    ELSE NoContext

(***************************************************************************)
(* Results of handle(): Result<Option<NetPacket>>                          *)
(***************************************************************************)
NoReply == [type |-> "None"]

Ok(reply) == [reply |-> reply, ok |-> TRUE, err |-> ""]

Err(e) == [reply |-> NoReply, ok |-> FALSE, err |-> e]

\* what a handler leaves: the state, the result, the sub-handler that ran and
\* the broadcast copies it sent
Ret(S, res, ran, sent) == [S |-> S, res |-> res, ran |-> ran, sent |-> sent]

(***************************************************************************)
(* Registration: server.rs register, check_reg, clients_info               *)
(***************************************************************************)
check_reg(request) ==
    IF Len(request.token) = 0 \/ Len(request.token) > 128 THEN "group length error"
    ELSE IF Len(request.device_id) = 0 \/ Len(request.device_id) > 128 THEN "device_id length error"
    ELSE IF Len(request.name) = 0 \/ Len(request.name) > 128 THEN "name length error"
    ELSE ""

\* ip_range: (gateway & netmask) + 1 .. gateway | !netmask, half open
ip_range(gateway, netmask) ==
    (BitAnd(gateway, netmask) + 1) .. (BitOr(gateway, BitNot(netmask)) - 1)

DeviceInfo(device_info) ==
    [name |-> device_info.name, client_secret |-> device_info.client_secret,
     virtual_ip |-> device_info.virtual_ip,
     device_status |-> IF device_info.online THEN 0 ELSE 1]

\* clients_info that leaves the caller in the list
clients_info_all(clients, current_ip) ==
    [k \in DOMAIN clients |-> DeviceInfo(clients[k])]

\* the Vec<DeviceInfo>: one element per map entry that passes the filter, kept
\* here under the key of the entry it was made from (the Vec's order is the
\* map's iteration order, which is arbitrary)
clients_info(clients, current_ip) ==
    [k \in {k \in DOMAIN clients : clients[k].virtual_ip /= current_ip} |->
        DeviceInfo(clients[k])]


\* requested_ip without the test against the gateway
requested_ip_gateway(lock, cfg, request) ==
    LET virtual_ip == request.virtual_ip IN
    IF virtual_ip = 0 THEN [virtual_ip |-> 0, err |-> ""]
    ELSE IF cfg.broadcast = virtual_ip
            \/ virtual_ip \notin ip_range(cfg.gateway, cfg.netmask)
         THEN [virtual_ip |-> virtual_ip, err |-> "InvalidIp"]
    ELSE IF virtual_ip \in DOMAIN lock.clients
            /\ lock.clients[virtual_ip].device_id /= request.device_id
         THEN IF ~request.allow_ip_change
              THEN [virtual_ip |-> virtual_ip, err |-> "IpAlreadyExists"]
              ELSE [virtual_ip |-> 0, err |-> ""]
    ELSE [virtual_ip |-> virtual_ip, err |-> ""]

\* requested_ip that keeps the requested address when allow_ip_change is set
requested_ip_displace(lock, cfg, request) ==
    LET virtual_ip == request.virtual_ip IN
    IF virtual_ip = 0 THEN [virtual_ip |-> 0, err |-> ""]
    ELSE IF cfg.gateway = virtual_ip
            \/ cfg.broadcast = virtual_ip
            \/ virtual_ip \notin ip_range(cfg.gateway, cfg.netmask)
         THEN [virtual_ip |-> virtual_ip, err |-> "InvalidIp"]
    ELSE IF virtual_ip \in DOMAIN lock.clients
            /\ lock.clients[virtual_ip].device_id /= request.device_id
            /\ ~request.allow_ip_change
         THEN [virtual_ip |-> virtual_ip, err |-> "IpAlreadyExists"]
    ELSE [virtual_ip |-> virtual_ip, err |-> ""]

\* requested_ip that reassigns on a conflict whatever allow_ip_change is
requested_ip_always(lock, cfg, request) ==
    LET virtual_ip == request.virtual_ip IN
    IF virtual_ip = 0 THEN [virtual_ip |-> 0, err |-> ""]
    ELSE IF cfg.gateway = virtual_ip
            \/ cfg.broadcast = virtual_ip
            \/ virtual_ip \notin ip_range(cfg.gateway, cfg.netmask)
         THEN [virtual_ip |-> virtual_ip, err |-> "InvalidIp"]
    ELSE IF virtual_ip \in DOMAIN lock.clients
            /\ lock.clients[virtual_ip].device_id /= request.device_id
         THEN [virtual_ip |-> 0, err |-> ""]
    ELSE [virtual_ip |-> virtual_ip, err |-> ""]

\* requested_ip that does not test the address of a device that holds one
requested_ip_holder(lock, cfg, request) ==
    LET virtual_ip == request.virtual_ip IN
    IF virtual_ip = 0 THEN [virtual_ip |-> 0, err |-> ""]
    ELSE IF \E k \in DOMAIN lock.clients : lock.clients[k].device_id = request.device_id
         THEN [virtual_ip |-> virtual_ip, err |-> ""]
    ELSE IF cfg.gateway = virtual_ip
            \/ cfg.broadcast = virtual_ip
            \/ virtual_ip \notin ip_range(cfg.gateway, cfg.netmask)
         THEN [virtual_ip |-> virtual_ip, err |-> "InvalidIp"]
    ELSE IF virtual_ip \in DOMAIN lock.clients
            /\ lock.clients[virtual_ip].device_id /= request.device_id
         THEN IF ~request.allow_ip_change
              THEN [virtual_ip |-> virtual_ip, err |-> "IpAlreadyExists"]
              ELSE [virtual_ip |-> 0, err |-> ""]
    ELSE [virtual_ip |-> virtual_ip, err |-> ""]

\* lines 306-326: the requested address; [err, virtual_ip]
requested_ip(lock, cfg, request) ==
    LET virtual_ip == request.virtual_ip IN
    IF virtual_ip = 0 THEN [virtual_ip |-> 0, err |-> ""]
    ELSE IF cfg.gateway = virtual_ip
            \/ cfg.broadcast = virtual_ip
            \/ virtual_ip \notin ip_range(cfg.gateway, cfg.netmask)
         THEN [virtual_ip |-> virtual_ip, err |-> "InvalidIp"]
    ELSE IF virtual_ip \in DOMAIN lock.clients
            /\ lock.clients[virtual_ip].device_id /= request.device_id
         THEN IF ~request.allow_ip_change
              THEN [virtual_ip |-> virtual_ip, err |-> "IpAlreadyExists"]
              ELSE [virtual_ip |-> 0, err |-> ""]
    ELSE [virtual_ip |-> virtual_ip, err |-> ""]


\* device_ip that lets a requested address stand
device_ip_requested(clients, device_id, virtual_ip) ==
    LET same == {k \in DOMAIN clients : clients[k].device_id = device_id} IN
    IF same = {} \/ virtual_ip /= 0 THEN virtual_ip
    ELSE clients[CHOOSE k \in same : TRUE].virtual_ip

\* device_ip without the search
device_ip_none(clients, device_id, virtual_ip) == virtual_ip

\* lines 327-331: an entry of the same device overrides the address
device_ip(clients, device_id, virtual_ip) ==
    LET same == {k \in DOMAIN clients : clients[k].device_id = device_id} IN
    IF same = {} THEN virtual_ip
    ELSE clients[CHOOSE k \in same : TRUE].virtual_ip


\* unused_ip that does not skip the gateway
unused_ip_gateway(lock, range, virtual_ip) ==
    IF virtual_ip /= 0 THEN virtual_ip
    ELSE LET free == {ip \in range : ip \notin DOMAIN lock.clients} IN
         IF free = {} THEN 0
         ELSE CHOOSE ip \in free : \A other \in free : ip <= other

\* unused_ip that hands out the smallest taken address when none is free
unused_ip_taken(lock, range, virtual_ip) ==
    IF virtual_ip /= 0 THEN virtual_ip
    ELSE LET free == {ip \in range : ip /= lock.gateway_ip /\ ip \notin DOMAIN lock.clients}
             all == {ip \in range : ip /= lock.gateway_ip}
         IN IF free = {} THEN CHOOSE ip \in all : \A other \in all : ip <= other
            ELSE CHOOSE ip \in free : \A other \in free : ip <= other

\* lines 332-343: the smallest unused address of the range, 0 when there is none
unused_ip(lock, range, virtual_ip) ==
    IF virtual_ip /= 0 THEN virtual_ip
    ELSE LET free == {ip \in range : ip /= lock.gateway_ip /\ ip \notin DOMAIN lock.clients} IN
         IF free = {} THEN 0
         ELSE CHOOSE ip \in free : \A other \in free : ip <= other

\* lines 348-358: insert or update the entry
client_entry(clients, virtual_ip, request, addr, tcp_sender) ==
    LET info == IF virtual_ip \in DOMAIN clients THEN clients[virtual_ip]
                ELSE ClientInfo_default
    IN [info EXCEPT !.name = request.name,
                    !.device_id = request.device_id,
                    !.client_secret = request.client_secret,
                    !.address = addr,
                    !.online = TRUE,
                    !.virtual_ip = virtual_ip,
                    !.tcp_sender = tcp_sender]


\* next_epoch that counts twice
next_epoch_twice(epoch) == epoch + 2

\* line 359
next_epoch(epoch) == epoch + 1

\* lines 303-363: what happens under the group's write lock;
\* [err, lock (the NetworkInfo afterwards), virtual_ip, epoch, device_info_list]
register_locked(lock, cfg, request, addr, tcp_sender) ==
    LET asked == requested_ip(lock, cfg, request)
        sticky == device_ip(lock.clients, request.device_id, asked.virtual_ip)
        virtual_ip == unused_ip(lock, ip_range(cfg.gateway, cfg.netmask), sticky)
        failed(e) == [epoch |-> 0, virtual_ip |-> 0, err |-> e, lock |-> lock,
                      device_info_list |-> Empty]
    IN IF asked.err /= "" THEN failed(asked.err)
       ELSE IF virtual_ip = 0 THEN failed("AddressExhausted")
       ELSE LET clients == Put(lock.clients, virtual_ip,
                               client_entry(lock.clients, virtual_ip, request, addr, tcp_sender))
                after == [lock EXCEPT !.clients = clients, !.epoch = next_epoch(lock.epoch)]
            IN [epoch |-> TruncU32(after.epoch), virtual_ip |-> virtual_ip, err |-> "",
                lock |-> after,
                device_info_list |-> clients_info(clients, virtual_ip)]


\* register_sessions without the address session
register_sessions_ip_only(S, group_id, virtual_ip, addr) ==
    [S EXCEPT !.ip_session = insert_ip_session(S.ip_session, <<group_id, virtual_ip>>, addr)]

\* lines 364-369: both address <-> (group, vip) sessions
register_sessions(S, group_id, virtual_ip, addr) ==
    [S EXCEPT !.ip_session = insert_ip_session(S.ip_session, <<group_id, virtual_ip>>, addr),
              !.addr_session = insert_addr_session(S.addr_session, addr, <<group_id, virtual_ip>>)]

register(S, cfg, pkt, addr, tcp_sender) ==
    IF ~pkt.body.parse_ok THEN Ret(S, Err("ParseError"), "register", {})
    ELSE
    LET request == pkt.body.request
        group_id == request.token
        gateway == cfg.gateway
        netmask == cfg.netmask
        network == BitAnd(gateway, netmask)
    IN IF check_reg(request) /= "" THEN Ret(S, Err(check_reg(request)), "register", {})
       ELSE IF cfg.white_token.some /\ group_id \notin cfg.white_token.tokens
            THEN Ret(S, Err("TokenError"), "register", {})
       ELSE
       LET vn == optionally_get_with(S.virtual_network, group_id,
                                     NetworkInfo_new(network, netmask, gateway))
           S1 == [S EXCEPT !.virtual_network = vn]
           r == register_locked(vn[group_id], cfg, request, addr, tcp_sender)
       IN IF r.err /= "" THEN Ret(S1, Err(r.err), "register", {})
          ELSE Ret(register_sessions([S1 EXCEPT !.virtual_network[group_id] = r.lock],
                                     group_id, r.virtual_ip, addr),
                   Ok([epoch |-> r.epoch,
                       virtual_ip |-> r.virtual_ip,
                       type |-> "RegistrationResponse",
                       device_info_list |-> r.device_info_list,
                       public_addr |-> addr,
                       virtual_netmask |-> netmask,
                       virtual_gateway |-> gateway]),
                   "register", {})

(***************************************************************************)
(* Handshakes: server.rs handshake, secret_handshake                       *)
(***************************************************************************)
handshake(S, cfg, pkt, addr) ==
    Ret(S, Ok([type |-> "HandshakeResponse", version |-> "CARGO_PKG_VERSION",
               secret |-> cfg.rsa_cipher,
               public_key |-> IF cfg.rsa_cipher THEN "public_key" ELSE "",
               key_finger |-> IF cfg.rsa_cipher THEN "finger" ELSE ""]),
        "handshake", {})

\* secret_handshake that answers without installing the cipher session
secret_handshake_no_session(S, cfg, pkt, addr) ==
    IF cfg.rsa_cipher
    THEN IF ~pkt.body.rsa_ok THEN Ret(S, Err("RsaError"), "secret_handshake", {})
         ELSE IF ~pkt.body.key_ok THEN Ret(S, Err("key err"), "secret_handshake", {})
         ELSE Ret(S, Ok([type |-> "SecretHandshakeResponse"]), "secret_handshake", {})
    ELSE Ret(S, Err("no encryption"), "secret_handshake", {})

\* body: rsa_ok (the RSA decryption and the parse succeed), key_ok (the key has
\* 32 bytes), key (the AES key the client chose)
secret_handshake(S, cfg, pkt, addr) ==
    IF cfg.rsa_cipher
    THEN IF ~pkt.body.rsa_ok THEN Ret(S, Err("RsaError"), "secret_handshake", {})
         ELSE IF ~pkt.body.key_ok THEN Ret(S, Err("key err"), "secret_handshake", {})
         ELSE Ret([S EXCEPT !.cipher_session =
                              insert_cipher_session(S.cipher_session, addr, pkt.body.key)],
                  Ok([type |-> "SecretHandshakeResponse"]), "secret_handshake", {})
    ELSE Ret(S, Err("no encryption"), "secret_handshake", {})

(***************************************************************************)
(* Control: server.rs control_ping, control_addr_request                   *)
(***************************************************************************)
control_ping(S, pkt, context) ==
    Ret(S, Ok([epoch |-> TruncU16(S.virtual_network[context.group].epoch), type |-> "Pong",
               payload |-> pkt.body.payload]),
        "control_ping", {})

\* the address family of a transport address
addr_family(addr) == IF addr = "a6" THEN "V6" ELSE IF addr = "a2" THEN "V6Mapped" ELSE "V4"

control_addr_request(S, addr) ==
    IF addr_family(addr) = "V6" THEN Ret(S, Ok(NoReply), "control_addr_request", {})
    ELSE Ret(S, Ok([type |-> "AddrResponse", public_addr |-> addr]),
             "control_addr_request", {})

(***************************************************************************)
(* Directory: server.rs poll_device_list, up_client_status_info, broadcast *)
(***************************************************************************)
poll_device_list(S, context) ==
    LET guard == S.virtual_network[context.group] IN
    Ret(S, Ok([epoch |-> TruncU32(guard.epoch), type |-> "PushDeviceList",
               device_info_list |-> clients_info(guard.clients, context.virtual_ip)]),
        "poll_device_list", {})

\* client_status_info: [source, p2p_list, up_stream, down_stream, cone]
status_entry(v, client_status_info) ==
    [v EXCEPT !.client_status =
        [some |-> TRUE, p2p_list |-> client_status_info.p2p_list,
         up_stream |-> client_status_info.up_stream,
         down_stream |-> client_status_info.down_stream,
         is_cone |-> client_status_info.cone]]

\* up_client_status_info that makes an entry for a source that has none
up_client_status_info_insert(S, client_status_info, context) ==
    LET clients == S.virtual_network[context.group].clients
        v == IF client_status_info.source \in DOMAIN clients
             THEN clients[client_status_info.source]
             ELSE [ClientInfo_default EXCEPT !.virtual_ip = client_status_info.source]
    IN [S EXCEPT !.virtual_network[context.group].clients =
                    Put(clients, client_status_info.source,
                        status_entry(v, client_status_info))]

up_client_status_info(S, client_status_info, context) ==
    LET clients == S.virtual_network[context.group].clients IN
    IF client_status_info.source \in DOMAIN clients
    THEN [S EXCEPT !.virtual_network[context.group].clients[client_status_info.source] =
                      status_entry(clients[client_status_info.source], client_status_info)]
    ELSE S

\* broadcast that does not compare client_secret with the packet's encrypted bit
broadcast_any_secret(S, context, net_packet, exclude) ==
    LET clients == S.virtual_network[context.group].clients
    IN { [virtual_ip |-> ip,
          group |-> context.group,
          via |-> IF clients[ip].tcp_sender /= None THEN "tcp" ELSE "udp",
          to |-> IF clients[ip].tcp_sender /= None THEN clients[ip].tcp_sender
                 ELSE clients[ip].address]
         : ip \in {ip \in DOMAIN clients : clients[ip].online /\ ip \notin exclude} }

\* the copies sent: [virtual_ip, via, to] for every client the filter lets through
broadcast(S, context, net_packet, exclude) ==
    LET clients == S.virtual_network[context.group].clients
        client_secret == net_packet.encrypt
    IN { [virtual_ip |-> ip,
          group |-> context.group,
          via |-> IF clients[ip].tcp_sender /= None THEN "tcp" ELSE "udp",
          to |-> IF clients[ip].tcp_sender /= None THEN clients[ip].tcp_sender
                 ELSE clients[ip].address]
         : ip \in {ip \in DOMAIN clients :
                     /\ clients[ip].online
                     /\ ip \notin exclude
                     /\ clients[ip].client_secret = client_secret} }

(***************************************************************************)
(* Dispatch: server.rs not_context, handle                                 *)
(***************************************************************************)
\* lines 156-163
unknown(S, sent) == Ret(S, Err("Unknown"), "none", sent)

\* [handled, ret]
not_context(S, cfg, pkt, addr, tcp_sender) ==
    IF pkt.protocol = "Service" /\ pkt.transport = "RegistrationRequest"
    THEN [handled |-> TRUE, ret |-> register(S, cfg, pkt, addr, tcp_sender)]
    ELSE IF pkt.protocol = "Control" /\ pkt.transport = "AddrRequest"
    THEN [handled |-> TRUE, ret |-> control_addr_request(S, addr)]
    ELSE [handled |-> FALSE, ret |-> unknown(S, {})]

\* lines 93-163: the requests that need the context
with_context(S, pkt, addr, context) ==
    IF pkt.protocol = "Service" /\ pkt.transport = "PollDeviceList"
    THEN poll_device_list(S, context)
    ELSE IF pkt.protocol = "Service" /\ pkt.transport = "ClientStatusInfo"
    THEN IF ~pkt.body.parse_ok THEN Ret(S, Err("ParseError"), "none", {})
         ELSE Ret(up_client_status_info(S, pkt.body.status, context), Ok(NoReply),
                  "up_client_status_info", {})
    ELSE IF pkt.protocol = "Control" /\ pkt.transport = "Ping"
    THEN control_ping(S, pkt, context)
    ELSE IF pkt.protocol = "IpTurn" /\ pkt.transport = "Ipv4Broadcast"
    THEN IF ~pkt.body.parse_ok THEN Ret(S, Err("ParseError"), "none", {})
         ELSE LET sent == broadcast(S, context, pkt.body.inner, pkt.body.exclude)
              IN [unknown(S, sent) EXCEPT !.ran = "broadcast"]
    ELSE IF pkt.protocol = "IpTurn" /\ pkt.transport = "Ipv4"
    THEN IF ~pkt.body.parse_ok THEN Ret(S, Err("ParseError"), "none", {})
         ELSE IF pkt.body.ip_protocol = "Icmp" /\ pkt.body.icmp_kind = "EchoRequest"
         THEN Ret(S, Ok([type |-> "Ipv4", source |-> pkt.body.destination,
                         icmp_kind |-> "EchoReply", destination |-> pkt.body.source,
                         gateway_flag |-> TRUE,
                         ip_source |-> pkt.body.destination,
                         ip_destination |-> pkt.body.source]),
                  "icmp_echo", {})
         ELSE unknown(S, {})
    ELSE unknown(S, {})


\* decrypt_gate that lets a sealed packet through when there is no session
decrypt_gate_open(S, pkt, addr) ==
    IF pkt.encrypt /\ addr \in DOMAIN S.cipher_session /\ S.cipher_session[addr] /= pkt.key
    THEN "DecryptError"
    ELSE ""

\* lines 72-78: [err, decrypted]; an AES session opens what its key sealed
decrypt_gate(S, pkt, addr) ==
    IF pkt.encrypt
    THEN IF addr \in DOMAIN S.cipher_session
         THEN IF S.cipher_session[addr] = pkt.key THEN "" ELSE "DecryptError"
         ELSE "NoKey"
    ELSE ""

\* handle that goes on to the unknown-packet exit when there is no context
handle_no_disconnect(S, cfg, pkt, addr, tcp_sender) ==
    IF pkt.protocol = "Service" /\ pkt.transport = "HandshakeRequest"
    THEN handshake(S, cfg, pkt, addr)
    ELSE IF pkt.protocol = "Service" /\ pkt.transport = "SecretHandshakeRequest"
    THEN secret_handshake(S, cfg, pkt, addr)
    ELSE IF decrypt_gate(S, pkt, addr) /= ""
    THEN Ret(S, Err(decrypt_gate(S, pkt, addr)), "none", {})
    ELSE LET nc == not_context(S, cfg, pkt, addr, tcp_sender) IN
         IF nc.handled THEN nc.ret
         ELSE LET context == get_context(S, addr) IN
              IF ~context.some THEN unknown(S, {})
              ELSE with_context(S, pkt, addr, context)

handle(S, cfg, pkt, addr, tcp_sender) ==
    IF pkt.protocol = "Service" /\ pkt.transport = "HandshakeRequest"
    THEN handshake(S, cfg, pkt, addr)
    ELSE IF pkt.protocol = "Service" /\ pkt.transport = "SecretHandshakeRequest"
    THEN secret_handshake(S, cfg, pkt, addr)
    ELSE IF decrypt_gate(S, pkt, addr) /= ""
    THEN Ret(S, Err(decrypt_gate(S, pkt, addr)), "none", {})
    ELSE LET nc == not_context(S, cfg, pkt, addr, tcp_sender) IN
         IF nc.handled THEN nc.ret
         ELSE LET context == get_context(S, addr) IN
              IF ~context.some THEN Ret(S, Err("Disconnect"), "none", {})
              ELSE with_context(S, pkt, addr, context)

(***************************************************************************)
(* Inbound packets                                                         *)
(***************************************************************************)
\* the envelope's encrypted bit, and the key that sealed the packet ("kx" is a
\* key no handshake installed)
Clear == [key |-> "", encrypt |-> FALSE]

Sealed == [key |-> "k1", encrypt |-> TRUE]

Seals == {Clear, Sealed}

NetPacket(protocol, transport, seal, body) ==
    [key |-> seal.key, body |-> body, encrypt |-> seal.encrypt,
     protocol |-> protocol, transport |-> transport]

RegistrationRequest_new(token, device_id, profile, virtual_ip, allow_ip_change) ==
    [device_id |-> device_id, name |-> profile.name, client_secret |-> profile.client_secret,
     virtual_ip |-> virtual_ip, token |-> token,
     allow_ip_change |-> allow_ip_change]

TooLong == "LLLLLLLLLLLLLLLLLLLLLLLLLLLLLLLLLLLLLLLLLLLLLLLLLLLLLLLLLLLLLLLLLLLLLLLLLLLLLLLLLLLLLLLLLLLLLLLLLLLLLLLLLLLLLLLLLLLLLLLLLLLLLLLLL"

P1 == [name |-> "n1", client_secret |-> FALSE]

P2 == [name |-> "n2", client_secret |-> TRUE]

NoRequest == RegistrationRequest_new("", "", [name |-> "", client_secret |-> FALSE], 0, FALSE)

\* requests into group "T": device A asking for no address, the gateway, the
\* broadcast address of the /29, an address outside the range, or 2 or 3 with
\* and without allow_ip_change, devices B and C for some of these; into group
\* "U"; with a token outside the allowlist; with fields of length 0 and 129;
\* and a body that does not parse
Asked ==
    { <<"A", P1, 0, FALSE>>, <<"A", P1, 1, FALSE>>, <<"A", P1, 7, TRUE>>,
      <<"A", P1, 9, FALSE>>, <<"A", P1, 3, FALSE>>, <<"A", P2, 0, FALSE>>,
      <<"B", P2, 0, FALSE>>, <<"B", P2, 2, FALSE>>, <<"B", P2, 2, TRUE>>,
      <<"C", P1, 0, FALSE>> }

RegistrationBodies ==
    { [request |-> RegistrationRequest_new("T", q[1], q[2], q[3], q[4]), parse_ok |-> TRUE]
      : q \in Asked }
    \cup { [request |-> r, parse_ok |-> TRUE]
           : r \in { RegistrationRequest_new("U", "B", P2, 0, FALSE),
                     RegistrationRequest_new("X", "A", P1, 0, FALSE),
                     RegistrationRequest_new("", "A", P1, 0, FALSE),
                     RegistrationRequest_new("T", TooLong, P1, 0, FALSE),
                     RegistrationRequest_new("T", "A", [P1 EXCEPT !.name = ""], 0, FALSE) } }
    \cup { [request |-> NoRequest, parse_ok |-> FALSE] }

\* the bodies that also arrive sealed
SealedRegistrationBodies ==
    { [request |-> RegistrationRequest_new("T", q[1], q[2], q[3], q[4]), parse_ok |-> TRUE]
      : q \in {<<"A", P1, 0, FALSE>>, <<"B", P2, 2, TRUE>>} }

StatusBody(source) ==
    [parse_ok |-> TRUE,
     status |-> [p2p_list |-> {}, up_stream |-> 1, down_stream |-> 1, cone |-> TRUE,
                 source |-> source]]

StatusBodies ==
    { StatusBody(src) : src \in {3, 6} }
    \cup { [parse_ok |-> FALSE,
            status |-> [p2p_list |-> {}, up_stream |-> 0, down_stream |-> 0, cone |-> FALSE,
                        source |-> 0]] }

BroadcastBody(exclude, encrypt) ==
    [parse_ok |-> TRUE, exclude |-> exclude, inner |-> [encrypt |-> encrypt]]

BroadcastBodies ==
    { BroadcastBody(x, e) : x \in {{}, {2}}, e \in BOOLEAN }
    \cup { [parse_ok |-> FALSE, exclude |-> {}, inner |-> [encrypt |-> FALSE]] }

Ipv4Body(destination, ip_protocol, icmp_kind) ==
    [parse_ok |-> TRUE, source |-> 2, ip_protocol |-> ip_protocol,
     icmp_kind |-> icmp_kind, destination |-> destination]

Ipv4Bodies ==
    { Ipv4Body(d, "Icmp", k) : d \in {1, 3}, k \in {"EchoRequest", "EchoReply"} }
    \cup { Ipv4Body(1, "Udp", ""),
           [parse_ok |-> FALSE, source |-> 2, ip_protocol |-> "", icmp_kind |-> "",
            destination |-> 1] }

SecretBodies ==
    { [key |-> k, rsa_ok |-> TRUE, key_ok |-> TRUE] : k \in Keys }
    \cup { [key |-> "", rsa_ok |-> FALSE, key_ok |-> FALSE],
           [key |-> "", rsa_ok |-> TRUE, key_ok |-> FALSE] }

NoBody == [parse_ok |-> TRUE]

(***************************************************************************)
(* The state machine: the listener hands a packet to handle() and is given *)
(* its result (one action per kind of packet), sends the reply and turns   *)
(* to the next packet (Reply)                                              *)
(***************************************************************************)
Core == [virtual_network |-> virtual_network, addr_session |-> addr_session,
         ip_session |-> ip_session, cipher_session |-> cipher_session]

NoPacket == NetPacket("", "", Clear, NoBody)

\* between two packets
Idle == [addr |-> "", res |-> Ok(NoReply), ran |-> "none", sent |-> {}, pkt |-> NoPacket]

\* the registrations that may be in flight at once
MaxTasks == 3

Tasks == 1 .. MaxTasks

\* a worker that has picked up no registration yet
NoTask == [addr |-> "", epoch |-> 0, virtual_ip |-> 0, res |-> Ok(NoReply),
           request |-> NoRequest, device_info_list |-> Empty, pc |-> "idle"]

Init ==
    /\ config \in Configs
    /\ virtual_network = Empty
    /\ addr_session = Empty
    /\ ip_session = Empty
    /\ cipher_session = Empty
    /\ last = Idle
    /\ tasks = [p \in Tasks |-> NoTask]

RECURSIVE SumEpoch(_, _)
SumEpoch(vn, groups) ==
    IF groups = {} THEN 0
    ELSE LET g == CHOOSE g \in groups : TRUE
         IN vn[g].epoch + SumEpoch(vn, groups \ {g})

\* the registrations taken so far stay within MaxEpoch
EpochBound(S) == SumEpoch(S.virtual_network, DOMAIN S.virtual_network) <= MaxEpoch

\* handle(net_packet, addr, tcp_sender) runs and returns
Deliver(pkt, addr) ==
    /\ last = Idle
    /\ LET r == handle(Core, config, pkt, addr, tcp_sender_of(addr)) IN
       /\ EpochBound(r.S)
       /\ virtual_network' = r.S.virtual_network
       /\ addr_session' = r.S.addr_session
       /\ ip_session' = r.S.ip_session
       /\ cipher_session' = r.S.cipher_session
       /\ last' = [addr |-> addr, res |-> r.res, ran |-> r.ran, sent |-> r.sent,
                   pkt |-> pkt]
    /\ UNCHANGED <<config, tasks>>

\* a packet arrives in clear with every body of its kind, and sealed with
\* the first of them
Arrivals(bodies, first) == (Addrs \X {Clear} \X bodies) \cup (Addrs \X {Sealed} \X {first})

HandshakeRequest ==
    \E a \in Arrivals({NoBody}, NoBody) :
        Deliver(NetPacket("Service", "HandshakeRequest", a[2], a[3]), a[1])

SecretHandshakeRequest ==
    \E addr \in Addrs, body \in SecretBodies :
        Deliver(NetPacket("Service", "SecretHandshakeRequest", Clear, body), addr)

RegistrationRequest ==
    \/ \E addr \in Addrs, body \in RegistrationBodies :
        Deliver(NetPacket("Service", "RegistrationRequest", Clear, body), addr)
    \/ \E addr \in Addrs, body \in SealedRegistrationBodies :
        Deliver(NetPacket("Service", "RegistrationRequest", Sealed, body), addr)

AddrRequest ==
    \E addr \in Addrs \cup {"a6"}, seal \in Seals :
        Deliver(NetPacket("Control", "AddrRequest", seal, NoBody), addr)

PollDeviceList ==
    \E a \in Arrivals({NoBody}, NoBody) :
        Deliver(NetPacket("Service", "PollDeviceList", a[2], a[3]), a[1])

ClientStatusInfo ==
    \E a \in Arrivals(StatusBodies, StatusBody(3)) :
        Deliver(NetPacket("Service", "ClientStatusInfo", a[2], a[3]), a[1])

Ping ==
    \E addr \in Addrs, seal \in Seals \cup {[key |-> "kx", encrypt |-> TRUE]} :
        Deliver(NetPacket("Control", "Ping", seal, [parse_ok |-> TRUE, payload |-> "p"]), addr)

Ipv4Broadcast ==
    \E a \in Arrivals(BroadcastBodies, BroadcastBody({}, FALSE)) :
        Deliver(NetPacket("IpTurn", "Ipv4Broadcast", a[2], a[3]), a[1])

Ipv4 ==
    \E a \in Arrivals(Ipv4Bodies, Ipv4Body(1, "Icmp", "EchoRequest")) :
        Deliver(NetPacket("IpTurn", "Ipv4", a[2], a[3]), a[1])

OtherPacket ==
    \E a \in Arrivals({NoBody}, NoBody),
       pt \in {<<"Service", "RegistrationResponse">>, <<"Control", "Pong">>,
               <<"Other", "Other">>} :
        Deliver(NetPacket(pt[1], pt[2], a[2], a[3]), a[1])

\* the listener sends the reply, if any, and turns to the next packet
Reply ==
    /\ last /= Idle
    /\ last' = Idle
    /\ UNCHANGED <<config, virtual_network, addr_session, ip_session, cipher_session, tasks>>

\* the addresses whose session the TTL is let to evict
Expiring == {"a1"}

\* TTL eviction (section 3, Lifecycle): an address session expires, with it the
\* address's cipher session, and its client goes offline
ExpireAddrSession ==
    /\ last = Idle
    /\ \E addr \in DOMAIN addr_session \cap Expiring :
        LET g == addr_session[addr][1]
            v == addr_session[addr][2]
        IN /\ addr_session' = Remove(addr_session, addr)
           /\ cipher_session' = Remove(cipher_session, addr)
           /\ virtual_network' =
                 IF g \in DOMAIN virtual_network /\ v \in DOMAIN virtual_network[g].clients
                 THEN [virtual_network EXCEPT ![g].clients[v].online = FALSE]
                 ELSE virtual_network
    /\ UNCHANGED <<config, ip_session, last, tasks>>

Next ==
    \/ HandshakeRequest
    \/ SecretHandshakeRequest
    \/ RegistrationRequest
    \/ AddrRequest
    \/ PollDeviceList
    \/ ClientStatusInfo
    \/ Ping
    \/ Ipv4Broadcast
    \/ Ipv4
    \/ OtherPacket
    \/ Reply
    \/ ExpireAddrSession

Spec == Init /\ [][Next]_vars

(***************************************************************************)
(* Registrations on several workers at once.  register (server.rs 233-378) *)
(* is an async function: between its steps on the shared state (the        *)
(* get-or-create of the group, the span under the group's write lock, the  *)
(* two session inserts) the registrations of other workers run.  A task    *)
(* carries the locals of one call: addr, request, virtual_ip and the       *)
(* fields of the response filled in so far.  The handle v the cache gives  *)
(* out is the group's one NetworkInfo, named here by the group.            *)
(***************************************************************************)
\* the requests the workers take: devices A and B into group "T" asking for no
\* address, B asking for 2 with and without allow_ip_change, A into group "U",
\* and a token outside the allowlist
ConcurrentBodies ==
    { [request |-> r, parse_ok |-> TRUE]
      : r \in { RegistrationRequest_new("T", "A", P1, 0, FALSE),
                RegistrationRequest_new("T", "B", P2, 0, FALSE),
                RegistrationRequest_new("T", "B", P2, 2, TRUE),
                RegistrationRequest_new("T", "B", P2, 2, FALSE),
                RegistrationRequest_new("U", "A", P1, 0, FALSE),
                RegistrationRequest_new("X", "A", P1, 0, FALSE) } }

\* the task returns from register
returned(t, res) == [t EXCEPT !.pc = "done", !.res = res]

\* the positions at which a task holds the write lock of its group
Locked == {"allocate", "insert"}

\* v.write() taken by task p without the test that the lock is free
write_shared(T, p) == TRUE

\* line 304, v.write(): the lock is exclusive, p gets it when no other task
\* holds the lock of the same NetworkInfo
write(T, p) ==
    \A q \in DOMAIN T :
        (q /= p /\ T[q].pc \in Locked) => T[q].request.token /= T[p].request.token

\* lines 244-298: a worker picks up the request; it is parsed and checked and
\* the group is got from the cache or created
register_begin(p, addr, body) ==
    /\ tasks[p].pc = "idle"
    /\ \A q \in Tasks : q < p => tasks[q].pc /= "idle"
    /\ LET request == body.request
           group_id == request.token
           network == BitAnd(config.gateway, config.netmask)
           t == [tasks[p] EXCEPT !.addr = addr, !.request = request]
       IN IF ~body.parse_ok
          THEN /\ tasks' = [tasks EXCEPT ![p] = returned(t, Err("ParseError"))]
               /\ UNCHANGED virtual_network
          ELSE IF check_reg(request) /= ""
          THEN /\ tasks' = [tasks EXCEPT ![p] = returned(t, Err(check_reg(request)))]
               /\ UNCHANGED virtual_network
          ELSE IF config.white_token.some /\ group_id \notin config.white_token.tokens
          THEN /\ tasks' = [tasks EXCEPT ![p] = returned(t, Err("TokenError"))]
               /\ UNCHANGED virtual_network
          ELSE /\ virtual_network' =
                     optionally_get_with(virtual_network, group_id,
                                         NetworkInfo_new(network, config.netmask, config.gateway))
               /\ tasks' = [tasks EXCEPT ![p] = [t EXCEPT !.pc = "write",
                                                          !.virtual_ip = request.virtual_ip]]
    /\ UNCHANGED <<config, addr_session, ip_session, cipher_session, last>>

\* line 304: the task gets the write lock
register_write(p) ==
    /\ tasks[p].pc = "write"
    /\ write(tasks, p)
    /\ tasks' = [tasks EXCEPT ![p].pc = "allocate"]
    /\ UNCHANGED <<config, virtual_network, addr_session, ip_session, cipher_session, last>>

\* lines 306-347: the address is chosen from the directory as it is now; an
\* error returns and drops the lock
register_allocate(p) ==
    /\ tasks[p].pc = "allocate"
    /\ LET t == tasks[p]
           lock == virtual_network[t.request.token]
           asked == requested_ip(lock, config, t.request)
           sticky == device_ip(lock.clients, t.request.device_id, asked.virtual_ip)
           virtual_ip == unused_ip(lock, ip_range(config.gateway, config.netmask), sticky)
       IN tasks' = [tasks EXCEPT ![p] =
              IF asked.err /= "" THEN returned([t EXCEPT !.virtual_ip = 0], Err(asked.err))
              ELSE IF virtual_ip = 0 THEN returned(t, Err("AddressExhausted"))
              ELSE [t EXCEPT !.pc = "insert", !.virtual_ip = virtual_ip]]
    /\ UNCHANGED <<config, virtual_network, addr_session, ip_session, cipher_session, last>>

\* lines 348-362: the entry is inserted or updated, the epoch advanced and
\* read into the response, the roster taken, the lock dropped
register_insert(p) ==
    /\ tasks[p].pc = "insert"
    /\ LET t == tasks[p]
           group_id == t.request.token
           lock == virtual_network[group_id]
           clients == Put(lock.clients, t.virtual_ip,
                          client_entry(lock.clients, t.virtual_ip, t.request, t.addr,
                                       tcp_sender_of(t.addr)))
           after == [lock EXCEPT !.clients = clients, !.epoch = next_epoch(lock.epoch)]
       IN /\ virtual_network' = [virtual_network EXCEPT ![group_id] = after]
          /\ tasks' = [tasks EXCEPT ![p] =
                 [t EXCEPT !.pc = "ip_session",
                           !.epoch = TruncU32(after.epoch),
                           !.device_info_list = clients_info(clients, t.virtual_ip)]]
    /\ UNCHANGED <<config, addr_session, ip_session, cipher_session, last>>

\* lines 364-366
register_ip_session(p) ==
    /\ tasks[p].pc = "ip_session"
    /\ LET t == tasks[p] IN
       ip_session' = insert_ip_session(ip_session, <<t.request.token, t.virtual_ip>>, t.addr)
    /\ tasks' = [tasks EXCEPT ![p].pc = "addr_session"]
    /\ UNCHANGED <<config, virtual_network, addr_session, cipher_session, last>>

\* lines 367-377: the address session is inserted and the response returned
register_addr_session(p) ==
    /\ tasks[p].pc = "addr_session"
    /\ LET t == tasks[p] IN
       /\ addr_session' =
             insert_addr_session(addr_session, t.addr, <<t.request.token, t.virtual_ip>>)
       /\ tasks' = [tasks EXCEPT ![p] =
              returned(t, Ok([epoch |-> t.epoch,
                              virtual_ip |-> t.virtual_ip,
                              type |-> "RegistrationResponse",
                              device_info_list |-> t.device_info_list,
                              public_addr |-> t.addr,
                              virtual_netmask |-> config.netmask,
                              virtual_gateway |-> config.gateway]))]
    /\ UNCHANGED <<config, virtual_network, ip_session, cipher_session, last>>

ConcurrentRegistration ==
    \E p \in Tasks, addr \in Addrs, body \in ConcurrentBodies : register_begin(p, addr, body)

WriteLock == \E p \in Tasks : register_write(p)

Allocate == \E p \in Tasks : register_allocate(p)

Insert == \E p \in Tasks : register_insert(p)

IpSession == \E p \in Tasks : register_ip_session(p)

AddrSession == \E p \in Tasks : register_addr_session(p)

ConcurrentNext ==
    \/ ConcurrentRegistration
    \/ WriteLock
    \/ Allocate
    \/ Insert
    \/ IpSession
    \/ AddrSession

ConcurrentSpec == Init /\ [][ConcurrentNext]_vars

(***************************************************************************)
(* Vocabulary of the properties.  A step that handles a packet leads from  *)
(* last = Idle to the record of that packet and its result.                *)
(***************************************************************************)
Handled == last = Idle /\ last' /= Idle

Expired == last = Idle /\ last' = Idle

IsRegistration(l) == l.pkt.protocol = "Service" /\ l.pkt.transport = "RegistrationRequest"

\* the registration got as far as the allocation under the write lock
Allocating(l) ==
    /\ l.ran = "register"
    /\ l.res.err \in {"", "InvalidIp", "IpAlreadyExists", "AddressExhausted"}

Registered(l) == l.ran = "register" /\ l.res.ok

ClientsOf(vn, g) == IF g \in DOMAIN vn THEN vn[g].clients ELSE Empty

EpochOf(vn, g) == IF g \in DOMAIN vn THEN vn[g].epoch ELSE 0

HeldBy(clients, device_id) == {k \in DOMAIN clients : clients[k].device_id = device_id}

\* the addresses a client may hold: above the network address, below the
\* subnet's broadcast address, not the gateway
Usable(ni) ==
    LET top == BitOr(ni.network_ip, BitNot(ni.mask_ip)) IN
    {ip \in 0 .. 255 : ip >= ni.network_ip + 1 /\ ip < top} \ {ni.gateway_ip}

UsableOf(cfg) == Usable(NetworkInfo_new(BitAnd(cfg.gateway, cfg.netmask), cfg.netmask, cfg.gateway))

\* a requested address that passes the validity test
ValidRequest(cfg, ip) == ip /= 0 /\ ip \in UsableOf(cfg) /\ ip /= cfg.broadcast

(***************************************************************************)
(* C1                                                                      *)
(***************************************************************************)
\* C1: in every reachable state and every group, each key of clients lies in
\* the usable range, is neither the gateway nor the broadcast address, and the
\* entry under it has virtual_ip equal to the key.
C1_ClientKeys ==
    \A g \in DOMAIN virtual_network :
        LET ni == virtual_network[g]
            usable == Usable(ni)
            top == BitOr(ni.network_ip, BitNot(ni.mask_ip))
        IN \A k \in DOMAIN ni.clients :
            /\ k \in usable
            /\ k /= ni.gateway_ip
            /\ k /= top
            /\ k /= config.broadcast
            /\ ni.clients[k].virtual_ip = k

\* a group of three clients has just refused a request for an invalid address
C1_Witness ==
    /\ last.ran = "register"
    /\ last.res.err = "InvalidIp"
    /\ Cardinality(DOMAIN ClientsOf(virtual_network, last.pkt.body.request.token)) = 3

(***************************************************************************)
(* C2                                                                      *)
(***************************************************************************)
\* C2: a group's epoch never decreases; a successful registration into the
\* group adds exactly 1 to it and no other step changes it.
C2_Epoch ==
    [][\A g \in (DOMAIN virtual_network) \cup (DOMAIN virtual_network') :
          LET before == EpochOf(virtual_network, g)
              after == EpochOf(virtual_network', g)
          IN /\ after >= before
             /\ IF Handled /\ Registered(last') /\ last'.pkt.body.request.token = g
                THEN after = before + 1
                ELSE after = before]_vars

\* the third successful registration into a group
C2_Witness ==
    /\ Registered(last)
    /\ last.res.reply.epoch = 3
    /\ virtual_network[last.pkt.body.request.token].epoch = 3

(***************************************************************************)
(* C3                                                                      *)
(***************************************************************************)
\* the device of the request holds v0 in its group and asks for another
\* address, r, that is valid and held by no client
C3_Case(l, vn, cfg, v0) ==
    LET request == l.pkt.body.request
        clients == ClientsOf(vn, request.token)
    IN /\ v0 \in HeldBy(clients, request.device_id)
       /\ request.virtual_ip /= v0
       /\ ValidRequest(cfg, request.virtual_ip)
       /\ request.virtual_ip \notin DOMAIN clients

\* the addresses the device of the request holds in its group
Held(l, vn) == HeldBy(ClientsOf(vn, l.pkt.body.request.token), l.pkt.body.request.device_id)

\* C3 as claimed: re-registering with the same device_id and a different
\* requested address that is valid and free returns the requested address.
C3_Original ==
    [][Handled /\ Allocating(last')
       => \A v0 \in Held(last', virtual_network) :
             C3_Case(last', virtual_network, config, v0)
             => /\ last'.res.ok
                /\ last'.res.reply.virtual_ip = last'.pkt.body.request.virtual_ip]_vars

\* C3 amended: re-registering with the same device_id and a different
\* requested address that is valid and free succeeds and returns the address
\* the device already holds; the requested address stays free.
C3_Sticky ==
    [][Handled /\ Allocating(last')
       => \A v0 \in Held(last', virtual_network) :
             C3_Case(last', virtual_network, config, v0)
             => /\ last'.res.ok
                /\ last'.res.reply.virtual_ip = v0
                /\ last'.pkt.body.request.virtual_ip
                     \notin DOMAIN ClientsOf(virtual_network', last'.pkt.body.request.token)]_vars

\* a device that holds an address has asked for a free one and was answered
\* with the one it holds
C3_Witness ==
    /\ Registered(last)
    /\ LET request == last.pkt.body.request
           clients == virtual_network[request.token].clients
       IN /\ ValidRequest(config, request.virtual_ip)
          /\ request.virtual_ip \notin DOMAIN clients
          /\ last.res.reply.virtual_ip /= request.virtual_ip
          /\ clients[last.res.reply.virtual_ip].device_id = request.device_id

(***************************************************************************)
(* C4                                                                      *)
(***************************************************************************)
\* C4: a registration with virtual_ip = 0 by a device_id already in the group
\* returns the address the device holds, adds no entry and adds exactly 1 to
\* the epoch, from whatever address it comes.
C4_ReRegister ==
    [][Handled /\ Allocating(last') /\ last'.pkt.body.request.virtual_ip = 0
       => \A v0 \in Held(last', virtual_network) :
             LET g == last'.pkt.body.request.token IN
             /\ last'.res.ok
             /\ last'.res.reply.virtual_ip = v0
             /\ DOMAIN ClientsOf(virtual_network', g) = DOMAIN ClientsOf(virtual_network, g)
             /\ EpochOf(virtual_network', g) = EpochOf(virtual_network, g) + 1
             /\ last'.res.reply.epoch = EpochOf(virtual_network, g) + 1]_vars

\* one device has registered three times with virtual_ip = 0, from both
\* addresses, and still is the group's only client
C4_Witness ==
    /\ Registered(last)
    /\ last.pkt.body.request.virtual_ip = 0
    /\ last.addr = "a2"
    /\ LET g == last.pkt.body.request.token IN
       /\ virtual_network[g].epoch = 3
       /\ Cardinality(DOMAIN virtual_network[g].clients) = 1
       /\ "a1" \in DOMAIN addr_session
       /\ addr_session["a1"] = <<g, last.res.reply.virtual_ip>>

(***************************************************************************)
(* C5                                                                      *)
(***************************************************************************)
\* C5: a registration that fails leaves the server state as it was: no group
\* is created, no clients entry is added or changed, the epoch and the three
\* session caches are unchanged.
C5_FailedRegistration ==
    [][Handled /\ IsRegistration(last') /\ ~last'.res.ok => core' = core]_vars

(***************************************************************************)
(* C6                                                                      *)
(***************************************************************************)
UniqueDevices(vn) ==
    \A g \in DOMAIN vn :
        \A j, k \in DOMAIN vn[g].clients :
            vn[g].clients[j].device_id = vn[g].clients[k].device_id => j = k

\* C6: a registration by device D leaves every entry of another device as it
\* was (key, device_id, name, address, online, client_secret), whatever address
\* D asked for and whatever allow_ip_change is; no two entries of a group carry
\* the same device_id.
C6_Incumbents ==
    [][/\ UniqueDevices(virtual_network')
       /\ Handled /\ IsRegistration(last') /\ last'.pkt.body.parse_ok
          => \A g \in DOMAIN virtual_network :
                \A k \in DOMAIN virtual_network[g].clients :
                    LET old == virtual_network[g].clients[k] IN
                    old.device_id /= last'.pkt.body.request.device_id
                    => /\ g \in DOMAIN virtual_network'
                       /\ k \in DOMAIN virtual_network'[g].clients
                       /\ LET new == virtual_network'[g].clients[k] IN
                          /\ new.device_id = old.device_id
                          /\ new.name = old.name
                          /\ new.address = old.address
                          /\ new.online = old.online
                          /\ new.client_secret = old.client_secret
                          /\ new.virtual_ip = old.virtual_ip]_vars

\* a device asked, with allow_ip_change, for the address of another device and
\* was registered elsewhere
C6_Witness ==
    /\ Registered(last)
    /\ LET request == last.pkt.body.request
           clients == virtual_network[request.token].clients
       IN /\ request.allow_ip_change
          /\ request.virtual_ip \in DOMAIN clients
          /\ clients[request.virtual_ip].device_id /= request.device_id
          /\ last.res.reply.virtual_ip /= request.virtual_ip

(***************************************************************************)
(* C7                                                                      *)
(***************************************************************************)
\* the requested address is valid and held by a client of another device
C7_Case(l, vn, cfg) ==
    /\ Allocating(l)
    /\ LET request == l.pkt.body.request
           clients == ClientsOf(vn, request.token)
       IN /\ ValidRequest(cfg, request.virtual_ip)
          /\ request.virtual_ip \in DOMAIN clients
          /\ clients[request.virtual_ip].device_id /= request.device_id

\* C7 as claimed: with allow_ip_change = false the registration fails with
\* IpAlreadyExists; with allow_ip_change = true it succeeds, with an address
\* other than the requested one.
C7_Original ==
    [][Handled /\ C7_Case(last', virtual_network, config)
       => IF last'.pkt.body.request.allow_ip_change
          THEN /\ last'.res.ok
               /\ last'.res.reply.virtual_ip /= last'.pkt.body.request.virtual_ip
          ELSE last'.res.err = "IpAlreadyExists"]_vars

\* C7 amended: with allow_ip_change = false the registration fails with
\* IpAlreadyExists; with allow_ip_change = true it succeeds with an address
\* other than the requested one, unless the requester's device holds no
\* address and no address of the range is free: then it fails with
\* AddressExhausted.
C7_Conflict ==
    [][Handled /\ C7_Case(last', virtual_network, config)
       => LET request == last'.pkt.body.request
              clients == ClientsOf(virtual_network, request.token)
              full == /\ HeldBy(clients, request.device_id) = {}
                      /\ UsableOf(config) \subseteq DOMAIN clients
          IN IF ~request.allow_ip_change THEN last'.res.err = "IpAlreadyExists"
             ELSE IF full THEN last'.res.err = "AddressExhausted"
             ELSE /\ last'.res.ok
                  /\ last'.res.reply.virtual_ip /= request.virtual_ip]_vars

\* a device asked, with allow_ip_change, for an address held by another
\* device, and the registration failed for want of a free address
C7_Witness ==
    /\ last.ran = "register"
    /\ last.res.err = "AddressExhausted"
    /\ LET request == last.pkt.body.request
           clients == virtual_network[request.token].clients
       IN /\ request.allow_ip_change
          /\ request.virtual_ip \in DOMAIN clients
          /\ clients[request.virtual_ip].device_id /= request.device_id

(***************************************************************************)
(* C8                                                                      *)
(***************************************************************************)
\* C8: a device_id not in the group that asks for no address, or is made to
\* take another one by a conflict with allow_ip_change, is given the smallest
\* address of the range that is not the gateway and not a key of clients (and
\* is refused with AddressExhausted when there is none).
C8_SmallestFree ==
    [][(/\ Handled
        /\ Allocating(last')
        /\ Held(last', virtual_network) = {}
        /\ \/ last'.pkt.body.request.virtual_ip = 0
           \/ /\ C7_Case(last', virtual_network, config)
              /\ last'.pkt.body.request.allow_ip_change)
       => LET clients == ClientsOf(virtual_network, last'.pkt.body.request.token)
              free == UsableOf(config) \ DOMAIN clients
          IN IF free = {} THEN last'.res.err = "AddressExhausted"
             ELSE /\ last'.res.ok
                  /\ last'.res.reply.virtual_ip \in free
                  /\ \A ip \in free : last'.res.reply.virtual_ip <= ip]_vars

\* the third new device of a group is given 10.0.0.4 after 10.0.0.2 and
\* 10.0.0.3 went to the first two
C8_Witness ==
    /\ Registered(last)
    /\ last.pkt.body.request.virtual_ip = 0
    /\ last.res.reply.virtual_ip = 4
    /\ DOMAIN virtual_network[last.pkt.body.request.token].clients = {2, 3, 4}
    /\ virtual_network[last.pkt.body.request.token].epoch = 3

(***************************************************************************)
(* C9                                                                      *)
(***************************************************************************)
\* C9: when a registration from addr returns its response, both
\* addr_session[addr] = (group, vip) and ip_session[(group, vip)] = addr are
\* installed and get_context(addr) is the context of (group, vip); the context
\* of an address stays what it is until a TTL expiry or a successful
\* registration from that address.
C9_Context ==
    [][/\ Handled /\ Registered(last')
          => LET key == <<last'.pkt.body.request.token, last'.res.reply.virtual_ip>> IN
             /\ last'.addr \in DOMAIN addr_session'
             /\ addr_session'[last'.addr] = key
             /\ key \in DOMAIN ip_session'
             /\ ip_session'[key] = last'.addr
             /\ get_context(Core', last'.addr) =
                  [some |-> TRUE, virtual_ip |-> key[2], group |-> key[1]]
       /\ \A addr \in DOMAIN addr_session :
             ~Expired /\ ~(Registered(last') /\ last'.addr = addr)
             => get_context(Core', addr) = get_context(Core, addr)]_vars

\* a1 registered, then a2 registered as another client, and a1's context is
\* the one its registration made
C9_Witness ==
    /\ Registered(last)
    /\ last.addr = "a2"
    /\ get_context(Core, "a1").some
    /\ get_context(Core, "a1") /= get_context(Core, "a2")
    /\ LET c == get_context(Core, "a1") IN
       /\ c.virtual_ip \in DOMAIN virtual_network[c.group].clients
       /\ virtual_network[c.group].clients[c.virtual_ip].address = "a1"

(***************************************************************************)
(* C10                                                                     *)
(***************************************************************************)
IsHandshake(pkt) ==
    pkt.protocol = "Service" /\ pkt.transport \in {"HandshakeRequest", "SecretHandshakeRequest"}

\* C10: a packet other than the two handshake requests whose encrypted bit is
\* set and whose source address has no cipher session is refused with NoKey:
\* no sub-handler runs, there is no reply and no state changes.
C10_NoKey ==
    [][(/\ Handled
        /\ ~IsHandshake(last'.pkt)
        /\ last'.pkt.encrypt
        /\ last'.addr \notin DOMAIN cipher_session)
       => /\ last'.res = Err("NoKey")
          /\ last'.ran = "none"
          /\ last'.sent = {}
          /\ core' = core]_vars

\* a sealed registration from an address without a cipher session was refused
\* while another address has one
C10_Witness ==
    /\ IsRegistration(last)
    /\ last.pkt.encrypt
    /\ last.res.err = "NoKey"
    /\ last.addr \notin DOMAIN cipher_session
    /\ cipher_session /= Empty

(***************************************************************************)
(* C11                                                                     *)
(***************************************************************************)
IsSecretHandshake(pkt) == pkt.protocol = "Service" /\ pkt.transport = "SecretHandshakeRequest"

\* C11: when a SecretHandshakeResponse is returned to addr, cipher_session[addr]
\* holds the key of the request; the session stays until a TTL expiry, and while
\* it is there no encrypted packet from addr is refused with NoKey, and one
\* sealed with the session's key passes the gate; without an RSA key the secret
\* handshake fails with "no encryption", with no reply and no session installed.
C11_SecretHandshake ==
    [][/\ Handled /\ IsSecretHandshake(last'.pkt) /\ last'.res.ok
          => /\ last'.res.reply.type = "SecretHandshakeResponse"
             /\ last'.addr \in DOMAIN cipher_session'
             /\ cipher_session'[last'.addr] = last'.pkt.body.key
       /\ \A addr \in DOMAIN cipher_session : ~Expired => addr \in DOMAIN cipher_session'
       /\ Handled /\ ~IsHandshake(last'.pkt) /\ last'.pkt.encrypt
             /\ last'.addr \in DOMAIN cipher_session
          => /\ last'.res.err /= "NoKey"
             /\ last'.pkt.key = cipher_session[last'.addr] => last'.res.err /= "DecryptError"
       /\ Handled /\ IsSecretHandshake(last'.pkt) /\ ~config.rsa_cipher
          => /\ last'.res = Err("no encryption")
             /\ cipher_session' = cipher_session]_vars

\* after its secret handshake an address sent a sealed registration, which
\* the server opened and accepted
C11_Witness ==
    /\ Registered(last)
    /\ last.pkt.encrypt
    /\ last.addr \in DOMAIN cipher_session
    /\ cipher_session[last.addr] = last.pkt.key

(***************************************************************************)
(* C12                                                                     *)
(***************************************************************************)
\* the requests handled with the context of their source address
ContextRequired(pkt) ==
    <<pkt.protocol, pkt.transport>> \in
        { <<"Service", "PollDeviceList">>, <<"Service", "ClientStatusInfo">>,
          <<"Control", "Ping">>, <<"IpTurn", "Ipv4">>, <<"IpTurn", "Ipv4Broadcast">> }

\* C12: a PollDeviceList, ClientStatusInfo, Ping, Ipv4 or Ipv4Broadcast that
\* the decryption gate lets through, from an address with no address session,
\* fails with Disconnect: there is no reply, no copy is delivered and neither
\* the directory nor a session cache changes.
C12_Disconnect ==
    [][(/\ Handled
        /\ ContextRequired(last'.pkt)
        /\ decrypt_gate(Core, last'.pkt, last'.addr) = ""
        /\ last'.addr \notin DOMAIN addr_session)
       => /\ last'.res = Err("Disconnect")
          /\ last'.ran = "none"
          /\ last'.sent = {}
          /\ core' = core]_vars

\* the address session of a registered client has expired and its broadcast
\* is refused, while another client of the group is online
C12_Witness ==
    /\ last.res.err = "Disconnect"
    /\ last.pkt.transport = "Ipv4Broadcast"
    /\ last.pkt.body.parse_ok
    /\ last.addr \notin DOMAIN addr_session
    /\ \E g \in DOMAIN virtual_network :
          \E j, k \in DOMAIN virtual_network[g].clients :
             /\ virtual_network[g].clients[j].address = last.addr
             /\ ~virtual_network[g].clients[j].online
             /\ k /= j
             /\ virtual_network[g].clients[k].online
             /\ k \notin last.pkt.body.exclude
             /\ virtual_network[g].clients[k].client_secret = last.pkt.body.inner.encrypt

(***************************************************************************)
(* C13                                                                     *)
(***************************************************************************)
\* the clients of group g a broadcast of an inner packet with the given
\* encrypted bit and exclude list is for
Recipients(vn, g, exclude, encrypt) ==
    {ip \in DOMAIN vn[g].clients :
        /\ vn[g].clients[ip].online
        /\ ip \notin exclude
        /\ vn[g].clients[ip].client_secret = encrypt}

\* C13: an Ipv4Broadcast with inner packet P and exclude list X from a client
\* of group G delivers one copy of P to a client if and only if the client is
\* an entry of G, online, not in X and has client_secret equal to P's encrypted
\* bit; every copy goes to the TCP sink or the address of such an entry of G.
C13_BroadcastFilter ==
    [][Handled /\ last'.ran = "broadcast"
       => LET g == addr_session[last'.addr][1]
              clients == virtual_network[g].clients
              body == last'.pkt.body
          IN /\ {c.virtual_ip : c \in last'.sent}
                  = Recipients(virtual_network, g, body.exclude, body.inner.encrypt)
             /\ \A c \in last'.sent :
                   /\ c.group = g
                   /\ c.virtual_ip \in DOMAIN clients
                   /\ c.to \in {clients[c.virtual_ip].tcp_sender, clients[c.virtual_ip].address}
             /\ Cardinality(last'.sent) = Cardinality({c.virtual_ip : c \in last'.sent})]_vars

\* a broadcast reached one client of the group and was kept from another, which
\* is online and not excluded but of the other cohort, while a second group
\* has a client
C13_Witness ==
    /\ last.ran = "broadcast"
    /\ last.sent /= {}
    /\ LET g == addr_session[last.addr][1]
           clients == virtual_network[g].clients
       IN /\ \E k \in DOMAIN clients :
                /\ clients[k].online
                /\ k \notin last.pkt.body.exclude
                /\ clients[k].client_secret /= last.pkt.body.inner.encrypt
          /\ \E h \in DOMAIN virtual_network : h /= g /\ virtual_network[h].clients /= Empty

(***************************************************************************)
(* C14                                                                     *)
(***************************************************************************)
\* one DeviceInfo for every client but the one under vip
Roster(clients, vip) ==
    [k \in DOMAIN clients \ {vip} |->
        [name |-> clients[k].name, client_secret |-> clients[k].client_secret,
         virtual_ip |-> k, device_status |-> IF clients[k].online THEN 0 ELSE 1]]

\* C14: the roster of a RegistrationResponse and the device_info_list of a
\* PushDeviceList hold one DeviceInfo for every client of the caller's group
\* but the caller's own vip, with status 0 exactly for the online ones, and the
\* epoch they carry is the group's at the snapshot (after the increment, for a
\* registration), as a u32.
C14_Roster ==
    [][/\ Handled /\ Registered(last')
          => LET g == last'.pkt.body.request.token
                 reply == last'.res.reply
             IN /\ reply.device_info_list
                     = Roster(virtual_network'[g].clients, reply.virtual_ip)
                /\ reply.epoch = TruncU32(virtual_network'[g].epoch)
                /\ virtual_network'[g].epoch = EpochOf(virtual_network, g) + 1
       /\ Handled /\ last'.ran = "poll_device_list"
          => LET g == addr_session[last'.addr][1]
                 reply == last'.res.reply
             IN /\ last'.res.ok
                /\ reply.type = "PushDeviceList"
                /\ reply.device_info_list
                     = Roster(virtual_network[g].clients, addr_session[last'.addr][2])
                /\ reply.epoch = TruncU32(virtual_network[g].epoch)]_vars

\* a client polled a group of three and was given the other two, one of them
\* offline
C14_Witness ==
    /\ last.ran = "poll_device_list"
    /\ last.res.reply.epoch = 3
    /\ LET list == last.res.reply.device_info_list
       IN /\ Cardinality(DOMAIN list) = 2
          /\ \E k \in DOMAIN list : list[k].device_status = 1
          /\ \E k \in DOMAIN list : list[k].device_status = 0

(***************************************************************************)
(* C15                                                                     *)
(***************************************************************************)
\* an Ipv4 packet that reached the handlers with the context of its sender
Ipv4Handled(l, S) ==
    /\ l.pkt.protocol = "IpTurn" /\ l.pkt.transport = "Ipv4"
    /\ decrypt_gate(S, l.pkt, l.addr) = ""
    /\ get_context(S, l.addr).some

\* C15: an Ipv4 packet from a registered client is answered if and only if it
\* is an ICMP EchoRequest whose destination is the group's gateway; the answer
\* is an EchoReply with source and destination swapped and the gateway flag set.
C15_EchoGateway ==
    [][Handled /\ Ipv4Handled(last', Core)
       => LET body == last'.pkt.body
              g == addr_session[last'.addr][1]
              echo == /\ body.parse_ok
                      /\ body.ip_protocol = "Icmp"
                      /\ body.icmp_kind = "EchoRequest"
                      /\ body.destination = virtual_network[g].gateway_ip
          IN /\ (last'.res.ok /\ last'.res.reply /= NoReply) <=> echo
             /\ echo => /\ last'.res.reply.icmp_kind = "EchoReply"
                         /\ last'.res.reply.source = body.destination
                         /\ last'.res.reply.destination = body.source
                         /\ last'.res.reply.gateway_flag]_vars

(***************************************************************************)
(* C16                                                                     *)
(***************************************************************************)
\* C16: a registration whose requested address is not 0 and is the gateway,
\* the configured broadcast address or outside ip_range fails with InvalidIp,
\* whatever allow_ip_change is and whether or not the device holds an address,
\* and writes no entry.
C16_InvalidIp ==
    [][(/\ Handled
        /\ Allocating(last')
        /\ LET v == last'.pkt.body.request.virtual_ip
           IN /\ v /= 0
              /\ \/ v = config.gateway
                 \/ v = config.broadcast
                 \/ v < BitAnd(config.gateway, config.netmask) + 1
                 \/ v >= BitOr(config.gateway, BitNot(config.netmask)))
       => /\ last'.res = Err("InvalidIp")
          /\ ClientsOf(virtual_network', last'.pkt.body.request.token)
               = ClientsOf(virtual_network, last'.pkt.body.request.token)]_vars

\* a device that holds an address asked for the gateway's and was refused
C16_Witness ==
    /\ last.ran = "register"
    /\ last.res.err = "InvalidIp"
    /\ last.pkt.body.request.virtual_ip = config.gateway
    /\ Held(last, virtual_network) /= {}

(***************************************************************************)
(* C17                                                                     *)
(***************************************************************************)
\* every address of the range but the gateway is a key of the group's clients
Full(vn, cfg, g) == UsableOf(cfg) \subseteq DOMAIN ClientsOf(vn, g)

\* C17: in a full group a registration by a device_id that is not in the group
\* fails with AddressExhausted, when it asks for no address and when it asks,
\* with allow_ip_change, for an occupied one, and leaves the group as it is; a
\* registration by a device_id of the group that asks for no address, or for a
\* valid one it is not refused, succeeds and keeps the device's address.
C17_GroupFull ==
    [][Handled /\ Allocating(last') /\ Full(virtual_network, config, last'.pkt.body.request.token)
       => LET request == last'.pkt.body.request
              clients == ClientsOf(virtual_network, request.token)
              other == /\ request.virtual_ip \in DOMAIN clients
                       /\ clients[request.virtual_ip].device_id /= request.device_id
              newcomer == \/ request.virtual_ip = 0
                          \/ ValidRequest(config, request.virtual_ip) /\ request.allow_ip_change
              returning == \/ request.virtual_ip = 0
                           \/ /\ ValidRequest(config, request.virtual_ip)
                              /\ (other => request.allow_ip_change)
          IN IF Held(last', virtual_network) = {}
             THEN newcomer => (/\ last'.res = Err("AddressExhausted")
                               /\ virtual_network' = virtual_network)
             ELSE returning
                  => (/\ last'.res.ok
                      /\ last'.res.reply.virtual_ip \in Held(last', virtual_network)
                      /\ DOMAIN ClientsOf(virtual_network', request.token) = DOMAIN clients)]_vars

\* a full group has refused a new device that asked for no address
C17_Witness ==
    /\ last.ran = "register"
    /\ last.res.err = "AddressExhausted"
    /\ last.pkt.body.request.virtual_ip = 0
    /\ Full(virtual_network, config, last.pkt.body.request.token)
    /\ Held(last, virtual_network) = {}
    /\ virtual_network[last.pkt.body.request.token].epoch >= 2

(***************************************************************************)
(* C18                                                                     *)
(***************************************************************************)
\* the requests the dispatch rules name
Listed(pkt) ==
    \/ IsHandshake(pkt)
    \/ pkt.protocol = "Service" /\ pkt.transport = "RegistrationRequest"
    \/ pkt.protocol = "Control" /\ pkt.transport = "AddrRequest"
    \/ ContextRequired(pkt)

\* C18: the dispatcher returns Unknown only for a request the dispatch rules
\* do not name; an Ipv4Broadcast that was processed, and an Ipv4 packet that is
\* not an ICMP echo request, end with no reply and no error.
C18_Unknown ==
    [][Handled
       => /\ last'.res.err = "Unknown" => ~Listed(last'.pkt)
          /\ (/\ last'.pkt.protocol = "IpTurn"
              /\ last'.pkt.transport \in {"Ipv4", "Ipv4Broadcast"}
              /\ decrypt_gate(Core, last'.pkt, last'.addr) = ""
              /\ get_context(Core, last'.addr).some
              /\ last'.pkt.body.parse_ok
              /\ last'.pkt.transport = "Ipv4"
                   => ~(/\ last'.pkt.body.ip_protocol = "Icmp"
                        /\ last'.pkt.body.icmp_kind = "EchoRequest"))
             => last'.res = Ok(NoReply)]_vars

(***************************************************************************)
(* C19                                                                     *)
(***************************************************************************)
\* C19: a packet other than the two handshake requests is processed by a
\* sub-handler only if its encrypted bit is set exactly when its source address
\* has a cipher session.
C19_EncryptedIffSession ==
    [][Handled /\ ~IsHandshake(last'.pkt) /\ last'.ran /= "none"
       => (last'.pkt.encrypt <=> last'.addr \in DOMAIN cipher_session)]_vars

(***************************************************************************)
(* C20                                                                     *)
(***************************************************************************)
\* C20: a ClientStatusInfo upload has no reply and changes at most the
\* client_status of the entry of the caller's group whose key is the upload's
\* source; without such an entry nothing changes and none is made.  The keys of
\* clients, the other fields of every entry, the epoch, the other groups and
\* the session caches stay as they are.
C20_StatusFrame ==
    [][Handled /\ last'.ran = "up_client_status_info"
       => LET g == addr_session[last'.addr][1]
              source == last'.pkt.body.status.source
              before == virtual_network[g]
              after == virtual_network'[g]
          IN /\ last'.res = Ok(NoReply)
             /\ last'.sent = {}
             /\ <<addr_session', ip_session', cipher_session'>>
                  = <<addr_session, ip_session, cipher_session>>
             /\ DOMAIN virtual_network' = DOMAIN virtual_network
             /\ \A h \in DOMAIN virtual_network \ {g} : virtual_network'[h] = virtual_network[h]
             /\ [after EXCEPT !.clients = before.clients] = before
             /\ DOMAIN after.clients = DOMAIN before.clients
             /\ \A k \in DOMAIN before.clients :
                   IF k = source
                   THEN [after.clients[k] EXCEPT !.client_status = before.clients[k].client_status]
                          = before.clients[k]
                   ELSE after.clients[k] = before.clients[k]]_vars

\* a client has stamped the status of another entry of its group
C20_Witness ==
    /\ last.ran = "up_client_status_info"
    /\ LET g == addr_session[last.addr][1]
           source == last.pkt.body.status.source
       IN /\ source \in DOMAIN virtual_network[g].clients
          /\ source /= addr_session[last.addr][2]
          /\ virtual_network[g].clients[source].client_status.some
          /\ \E k \in DOMAIN virtual_network[g].clients :
                ~virtual_network[g].clients[k].client_status.some

(***************************************************************************)
(* C21                                                                     *)
(***************************************************************************)
\* the task has been through the span under the write lock: its entry is
\* written and its epoch read
Assigned(t) == t.pc \in {"ip_session", "addr_session"} \/ (t.pc = "done" /\ t.res.ok)

AssignedIn(T, g) == {q \in DOMAIN T : Assigned(T[q]) /\ T[q].request.token = g}

\* C21: under every interleaving of concurrent registrations, from the ones
\* that create the group on: two registrations of one group with different
\* device_ids never hold the same vip, the directory entry of every
\* registration stays under its vip with its device_id, the registrations of
\* one group report pairwise distinct epochs, and the group's epoch is its
\* initial value 0 plus the number of registrations that succeeded in it.
C21_NoLostUpdate ==
    \A g \in DOMAIN virtual_network :
        LET done == AssignedIn(tasks, g)
            clients == virtual_network[g].clients
        IN /\ virtual_network[g].epoch = Cardinality(done)
           /\ \A p \in done :
                /\ tasks[p].virtual_ip \in DOMAIN clients
                /\ clients[tasks[p].virtual_ip].device_id = tasks[p].request.device_id
           /\ \A p, q \in done :
                p /= q =>
                    /\ tasks[p].epoch /= tasks[q].epoch
                    /\ (tasks[p].request.device_id /= tasks[q].request.device_id
                           => tasks[p].virtual_ip /= tasks[q].virtual_ip)

\* three registrations of two devices into the group all three created or
\* found, one returned and two still between the lock and their session
\* inserts, while the epoch stands at 3
C21_Witness ==
    \E p, q, r \in Tasks :
        /\ tasks[p].pc = "done" /\ tasks[p].res.ok
        /\ tasks[q].pc = "ip_session"
        /\ tasks[r].pc = "addr_session"
        /\ tasks[p].request.token = "T"
        /\ tasks[q].request.token = "T"
        /\ tasks[r].request.token = "T"
        /\ tasks[p].request.device_id /= tasks[q].request.device_id
        /\ tasks[q].epoch < tasks[p].epoch
        /\ virtual_network["T"].epoch = 3

(***************************************************************************)
(* C22                                                                     *)
(***************************************************************************)
\* no registration is in flight
Quiescent == \A p \in Tasks : tasks[p].pc \in {"idle", "done"}

\* C22: once every registration in flight has completed, for every group g
\* and every vip v of its clients map, ip_session[(g, v)] is clients[v].address
\* and addr_session of that address is (g, v), also when one device
\* registers from two addresses or one address registers as two devices.
C22_Agreement ==
    Quiescent =>
        \A g \in DOMAIN virtual_network :
            \A v \in DOMAIN virtual_network[g].clients :
                LET address == virtual_network[g].clients[v].address IN
                /\ <<g, v>> \in DOMAIN ip_session
                /\ ip_session[<<g, v>>] = address
                /\ address \in DOMAIN addr_session
                /\ addr_session[address] = <<g, v>>

====
